---- MODULE Spec2Model ----
\* SatWatch: the closest-approach search (src/src/conjunction_risk.py) and the
\* pairwise batch monitor (src/src/batch_monitor.py).
\*
\* Units.  Distances and positions are integers in units of 0.0001 km, so the
\* thresholds 1.0 km and 5.0 km are 10000 and 50000.  The reported field
\* min_distance_km (round(min_distance, 3)) is an integer in units of 0.001 km.
\* Times are minutes after start_time.  The orbit propagator is an oracle: an
\* element set carries its trajectory, a position (one coordinate) or a failure
\* for every minute, repeating with period OrbitPeriod.
EXTENDS Integers, Sequences, FiniteSets, TLC

\* ---------------------------------------------------------------- bounds
NumSats == 3
OrbitPeriod == 2

\* ------------------------------------------------------- option values
None == <<>>
Some(x) == <<x>>
IsNone(o) == o = <<>>
Get(o) == o[1]

\* ------------------------------------------------ element sets (TLE dicts)
\* lines: "ok"      TLE_LINE1 and TLE_LINE2 present and parseable
\*        "missing" a TLE line key is absent (ValueError, line 54)
\*        "invalid" parse_tle_from_json raises (ValueError, line 64)
Positions == {0, 4, 10000, 50000}
Samples == {None} \cup {Some(p) : p \in Positions}
Orbits == [1..OrbitPeriod -> Samples]
LineStates == {"ok", "missing", "invalid"}

\* subpoint: "ok"     position.subpoint() returns the geographic sub-point
\*           "raises" position.subpoint() raises for positions of this object
\*           "unreadable" subpoint() returns, reading its latitude,
\*                        longitude or elevation raises
SubpointStates == {"ok", "raises", "unreadable"}
Tle(name, lines, orbit) ==
    [OBJECT_NAME |-> name, lines |-> lines, orbit |-> orbit, subpoint |-> "ok"]
TleSub(name, lines, orbit, sub) ==
    [OBJECT_NAME |-> name, lines |-> lines, orbit |-> orbit, subpoint |-> sub]

\* satellite.at(t): the position at minute t, or None when the propagation
\* raises at that time.
At(sat, t) == sat.orbit[(t % OrbitPeriod) + 1]

\* (pos2 - pos1).distance(), one coordinate.
DistanceSigned(pos1, pos2) == pos2 - pos1
Distance(pos1, pos2) == IF pos2 >= pos1 THEN pos2 - pos1 ELSE pos1 - pos2

\* float('inf')
Inf == 1000000000
CRITICAL_KM == 10000
HIGH_RISK_KM == 50000

\* round(min_distance, 3): 0.0001 km units to 0.001 km units, ties to even.
Truncate3(d) == d \div 10
Round3(d) ==
    LET q == d \div 10
        r == d % 10
    IN  IF r < 5 THEN q
        ELSE IF r > 5 THEN q + 1
        ELSE IF q % 2 = 0 THEN q ELSE q + 1

\* The if/elif/else of lines 119-139 on the unrounded minimum.
RiskLevelInclusive(min_distance) ==
    IF min_distance <= CRITICAL_KM THEN "CRITICAL"
    ELSE IF min_distance <= HIGH_RISK_KM THEN "HIGH RISK"
    ELSE "NORMAL"
RiskLevel(min_distance) ==
    IF min_distance < CRITICAL_KM THEN "CRITICAL"
    ELSE IF min_distance < HIGH_RISK_KM THEN "HIGH RISK"
    ELSE "NORMAL"

\* outcomes of a call
Raise(e) == [ok |-> FALSE, exc |-> e]
Return(r) == [ok |-> TRUE, result |-> r]

\* ------------------------------------------- the sampling loop, lines 81-116
InitTrack ==
    [min_distance |-> Inf, min_distance_time |-> None,
     min_distance_pos1 |-> None, min_distance_pos2 |-> None, evaluated |-> 0]

\* Variants of the loop body: one whose first failed sample ends the
\* sampling, one that keeps the time of the first sample whatever the minimum.
LoopBodyStopAtFailure(st, sat1, sat2, step, step_minutes) ==
    LET minutes_forward == step * step_minutes
        pos1 == At(sat1, minutes_forward)
        pos2 == At(sat2, minutes_forward)
    IN  IF st.evaluated < 0 THEN st
        ELSE IF IsNone(pos1) \/ IsNone(pos2)
        THEN [st EXCEPT !.evaluated = -1]
        ELSE LET distance_km == Distance(Get(pos1), Get(pos2))
             IN  IF distance_km < st.min_distance
                 THEN [min_distance |-> distance_km,
                       min_distance_time |-> Some(minutes_forward),
                       min_distance_pos1 |-> pos1,
                       min_distance_pos2 |-> pos2,
                       evaluated |-> st.evaluated + 1]
                 ELSE [st EXCEPT !.evaluated = @ + 1]
LoopBodyKeepsFirstTime(st, sat1, sat2, step, step_minutes) ==
    LET minutes_forward == step * step_minutes
        pos1 == At(sat1, minutes_forward)
        pos2 == At(sat2, minutes_forward)
    IN  IF IsNone(pos1) \/ IsNone(pos2)
        THEN st
        ELSE LET distance_km == Distance(Get(pos1), Get(pos2))
             IN  IF distance_km < st.min_distance
                 THEN [min_distance |-> distance_km,
                       min_distance_time |->
                           IF IsNone(st.min_distance_time)
                           THEN Some(minutes_forward) ELSE st.min_distance_time,
                       min_distance_pos1 |-> pos1,
                       min_distance_pos2 |-> pos2,
                       evaluated |-> st.evaluated + 1]
                 ELSE [st EXCEPT !.evaluated = @ + 1]

\* One iteration of the loop for `step`.
LoopBody(st, sat1, sat2, step, step_minutes) ==
    LET minutes_forward == step * step_minutes
        pos1 == At(sat1, minutes_forward)
        pos2 == At(sat2, minutes_forward)
    IN  IF IsNone(pos1) \/ IsNone(pos2)
        THEN st                                   \* except: continue
        ELSE LET distance_km == Distance(Get(pos1), Get(pos2))
             IN  IF distance_km < st.min_distance
                 THEN [min_distance |-> distance_km,
                       min_distance_time |-> Some(minutes_forward),
                       min_distance_pos1 |-> pos1,
                       min_distance_pos2 |-> pos2,
                       evaluated |-> st.evaluated + 1]
                 ELSE [st EXCEPT !.evaluated = @ + 1]

\* for step in range(lo, hi + 1), in order (the range is split in halves so
\* that a 2881-sample grid does not nest 2881 deep).
RECURSIVE Loop(_, _, _, _, _, _)
Loop(st, sat1, sat2, lo, hi, step_minutes) ==
    IF lo > hi THEN st
    ELSE IF lo = hi THEN LoopBody(st, sat1, sat2, lo, step_minutes)
    ELSE LET mid == (lo + hi) \div 2
             left == Loop(st, sat1, sat2, lo, mid, step_minutes)
         IN  \* the test always holds; it makes the first half be evaluated
             \* before the second starts
             IF left.evaluated >= 0
             THEN Loop(left, sat1, sat2, mid + 1, hi, step_minutes)
             ELSE left

\* Lines 118-152: classification, message and result dictionary.  Every
\* branch formats min_distance_time.strftime(...), which raises
\* AttributeError when min_distance_time is None.
BuildResultNoTimeCheck(st, sat1_tle, sat2_tle, hours_ahead, step_minutes, num_steps) ==
    Return([min_distance_km |-> Round3(st.min_distance),
            min_distance_time |-> st.min_distance_time,
            risk_level |-> RiskLevel(st.min_distance),
            sat1_name |-> sat1_tle.OBJECT_NAME,
            sat2_name |-> sat2_tle.OBJECT_NAME,
            total_steps |-> num_steps + 1,
            analysis_period_hours |-> hours_ahead,
            step_size_minutes |-> step_minutes,
            sat1_position_at_closest |-> None,
            sat2_position_at_closest |-> None,
            min_distance |-> st.min_distance,
            evaluated |-> st.evaluated])
BuildResultCountsEvaluated(st, sat1_tle, sat2_tle, hours_ahead, step_minutes, num_steps) ==
    IF IsNone(st.min_distance_time)
    THEN Raise("AttributeError")
    ELSE Return([min_distance_km |-> Round3(st.min_distance),
                 min_distance_time |-> st.min_distance_time,
                 risk_level |-> RiskLevel(st.min_distance),
                 sat1_name |-> sat1_tle.OBJECT_NAME,
                 sat2_name |-> sat2_tle.OBJECT_NAME,
                 total_steps |-> st.evaluated,
                 analysis_period_hours |-> hours_ahead,
                 step_size_minutes |-> step_minutes,
                 sat1_position_at_closest |-> None,
                 sat2_position_at_closest |-> None,
                 min_distance |-> st.min_distance,
                 evaluated |-> st.evaluated])
BuildResult(st, sat1_tle, sat2_tle, hours_ahead, step_minutes, num_steps) ==
    IF IsNone(st.min_distance_time)
    THEN Raise("AttributeError")
    ELSE Return([min_distance_km |-> Round3(st.min_distance),
                 min_distance_time |-> st.min_distance_time,
                 risk_level |-> RiskLevel(st.min_distance),
                 sat1_name |-> sat1_tle.OBJECT_NAME,
                 sat2_name |-> sat2_tle.OBJECT_NAME,
                 total_steps |-> num_steps + 1,
                 analysis_period_hours |-> hours_ahead,
                 step_size_minutes |-> step_minutes,
                 sat1_position_at_closest |-> None,
                 sat2_position_at_closest |-> None,
                 min_distance |-> st.min_distance,
                 evaluated |-> st.evaluated])

\* position.subpoint(): the sub-point of a position of `sat`, or None when
\* the call raises.
Subpoint(sat, pos) ==
    IF sat.subpoint = "raises" THEN None ELSE pos

\* Lines 154-174: the positions at closest approach are added when both
\* sub-points can be computed; `except Exception: pass` otherwise.  A key
\* that is absent from the dictionary is None here.
\* Reading subpoint.latitude.degrees, .longitude.degrees and .elevation.km
Readable(sat) == sat.subpoint # "unreadable"

EnrichOrFail(result, st, sat1_tle, sat2_tle) ==
    IF IsNone(st.min_distance_pos1) \/ IsNone(st.min_distance_pos2)
    THEN Return(result)
    ELSE LET subpoint1 == Subpoint(sat1_tle, st.min_distance_pos1)
             subpoint2 == Subpoint(sat2_tle, st.min_distance_pos2)
         IN  IF IsNone(subpoint1) \/ IsNone(subpoint2)
             THEN Raise("Exception")
             ELSE IF ~Readable(sat1_tle) \/ ~Readable(sat2_tle)
             THEN Raise("Exception")
             ELSE Return([result EXCEPT !.sat1_position_at_closest = subpoint1,
                                        !.sat2_position_at_closest = subpoint2])
EnrichAllOrNothing(result, st, sat1_tle, sat2_tle) ==
    IF IsNone(st.min_distance_pos1) \/ IsNone(st.min_distance_pos2)
    THEN Return(result)
    ELSE LET subpoint1 == Subpoint(sat1_tle, st.min_distance_pos1)
             subpoint2 == Subpoint(sat2_tle, st.min_distance_pos2)
         IN  IF IsNone(subpoint1) \/ IsNone(subpoint2)
             THEN Return(result)
             ELSE IF ~Readable(sat1_tle) \/ ~Readable(sat2_tle)
             THEN Return(result)
             ELSE Return([result EXCEPT !.sat1_position_at_closest = subpoint1,
                                        !.sat2_position_at_closest = subpoint2])
\* The two sub-points are computed first (lines 158-159); the first key is
\* stored (lines 161-165) before the second dictionary is built (167-171).
Enrich(result, st, sat1_tle, sat2_tle) ==
    IF IsNone(st.min_distance_pos1) \/ IsNone(st.min_distance_pos2)
    THEN Return(result)
    ELSE LET subpoint1 == Subpoint(sat1_tle, st.min_distance_pos1)
             subpoint2 == Subpoint(sat2_tle, st.min_distance_pos2)
             with1 == [result EXCEPT !.sat1_position_at_closest = subpoint1]
         IN  IF IsNone(subpoint1) \/ IsNone(subpoint2)
             THEN Return(result)                       \* except: pass
             ELSE IF ~Readable(sat1_tle)
             THEN Return(result)                       \* except: pass
             ELSE IF ~Readable(sat2_tle)
             THEN Return(with1)                        \* except: pass
             ELSE Return([with1 EXCEPT !.sat2_position_at_closest = subpoint2])

\* Line 79: num_steps = total_minutes // step_minutes
NumStepsCeil(total_minutes, step_minutes) ==
    (total_minutes + step_minutes - 1) \div step_minutes
NumSteps(total_minutes, step_minutes) ==
    total_minutes \div step_minutes

\* calculate_conjunction_risk(sat1_tle, sat2_tle, hours_ahead, step_minutes)
calculate_conjunction_risk(sat1_tle, sat2_tle, hours_ahead, step_minutes) ==
    IF sat1_tle.lines = "missing" \/ sat2_tle.lines = "missing"
    THEN Raise("ValueError")
    ELSE IF sat1_tle.lines = "invalid" \/ sat2_tle.lines = "invalid"
    THEN Raise("ValueError")
    ELSE LET total_minutes == hours_ahead * 60
             num_steps == NumSteps(total_minutes, step_minutes)
             st == Loop(InitTrack, sat1_tle, sat2_tle, 0, num_steps, step_minutes)
             built == BuildResult(st, sat1_tle, sat2_tle, hours_ahead,
                                  step_minutes, num_steps)
         IN  IF built.ok
             THEN Enrich(built.result, st, sat1_tle, sat2_tle)
             ELSE built

\* ---------------------------------------- calculate_positions_over_time
\* The propagator is asked for a time given in seconds after the start.
AtSeconds(sat, seconds) == At(sat, seconds \div 60)

\* export_cesium_data.calculate_positions_over_time(satellite, start_time,
\* duration_minutes, step_seconds): the samples that could be computed, in
\* time order; `time` is the offset from start_time in seconds.  A sample
\* whose position or sub-point cannot be computed is skipped (continue).
SamplerNumSteps(duration_minutes, step_seconds) ==
    (duration_minutes * 60) \div step_seconds + 1
Sample(satellite, k, step_seconds) ==
    LET seconds == k * step_seconds
        position == AtSeconds(satellite, seconds)
    IN  IF \/ IsNone(position)
           \/ IsNone(Subpoint(satellite, position))
           \/ ~Readable(satellite)
        THEN None                                  \* continue
        ELSE Some([time |-> seconds, position |-> Get(position)])
IsSome(x) == ~IsNone(x)
calculate_positions_over_time(satellite, duration_minutes, step_seconds) ==
    LET num_steps == SamplerNumSteps(duration_minutes, step_seconds)
        attempts == [k \in 1..num_steps |-> Sample(satellite, k - 1, step_seconds)]
        positions == SelectSeq(attempts, IsSome)
    IN  [k \in 1..Len(positions) |-> Get(positions[k])]


\* ------------------------------------------------------------ variables
VARIABLES
    satellites_tle_data,  \* catnr -> None | Some(tle)
    hours_ahead,          \* monitor_all_pairs parameter
    min_risk_level,       \* monitor_all_pairs parameter
    pc,                   \* "idle" | "outer" | "inner" | "done" | "raised"
    i, j,                 \* positions of the two loops (1-based)
    results,              \* the accumulating result list
    total_pairs,          \* line 148
    calls,                \* history: every Finder call, with its outcome
    run,                  \* "base" | "injected"
    inject,               \* None | Some({catnr1, catnr2}): pair made to fail
    baseline,             \* None | Some(results returned by the base run)
    printed,              \* what the run has printed so far, in order
    f_sat1, f_sat2,       \* Finder inputs of the pure-function specification
    f_hours, f_step,
    f_out12, f_out21,     \* None | Some(outcome of the call)
    f_positions,          \* None | Some(calculate_positions_over_time(f_sat1))
    file,                 \* data/conjunction_results.json: None | Some(chunks)
    w_pc,                 \* save_results: "idle" | "writing"
    w_data,               \* None | Some([output_data, caller]) being written
    clock,                \* datetime.now(), one tick per run
    saved,                \* history: output_data of every completed save
    last_run,             \* history: None | Some(report of the latest main())
    loaded,               \* None | Some(outcome of load_conjunction_results)
    fr_epoch,             \* None (unparseable) | Some(epoch), in minutes
    fr_now,               \* datetime.now(timezone.utc), in minutes
    fr_out,               \* None | Some(get_data_freshness_status(...))
    ft_responses,         \* fetch: what the provider does for each request
    ft_pc,                \* fetch_all_satellite_tles: "loop" | "returned"
    ft_k,                 \* position in catnr_list (1-based)
    ft_data,              \* satellites_tle_data being built: catnr -> None | Some
    ft_requests,          \* history: the catalog numbers requested, in order
    rk_report,            \* get_satellite_risks: conjunction_results
    rk_query,             \* the tracked object asked for (index)
    rk_out                \* None | Some(list returned)

batch_vars == <<satellites_tle_data, hours_ahead, min_risk_level, pc, i, j,
                results, total_pairs, calls, run, inject, baseline, printed>>
finder_vars == <<f_sat1, f_sat2, f_hours, f_step, f_out12, f_out21,
                 f_positions>>
store_vars == <<file, w_pc, w_data, clock, saved, last_run, loaded>>
fresh_vars == <<fr_epoch, fr_now, fr_out>>
fetch_vars == <<ft_responses, ft_pc, ft_k, ft_data, ft_requests>>
risk_vars == <<rk_report, rk_query, rk_out>>
vars == <<batch_vars, finder_vars, store_vars, fresh_vars, fetch_vars,
          risk_vars>>

\* The report store and the freshness check at rest.
IdleStore ==
    /\ file = None
    /\ w_pc = "idle"
    /\ w_data = None
    /\ clock = 0
    /\ saved = <<>>
    /\ last_run = None
    /\ loaded = None
IdleFresh ==
    /\ fr_epoch = None
    /\ fr_now = 0
    /\ fr_out = None
IdleFetch ==
    /\ ft_responses = <<>>
    /\ ft_pc = "returned"
    /\ ft_k = 1
    /\ ft_data = <<>>
    /\ ft_requests = <<>>
IdleRisks ==
    /\ rk_report = None
    /\ rk_query = 1
    /\ rk_out = None

\* ----------------------------------------------------- tracked objects
\* tracked_satellites: the configured list; catalog numbers are unique.
tracked_satellites == [k \in 1..NumSats |-> [catnr |-> k, name |-> k]]
Catnrs == {tracked_satellites[k].catnr : k \in 1..NumSats}

ConstOrbit(p) == [k \in 1..OrbitPeriod |-> Some(p)]
FailOrbit == [k \in 1..OrbitPeriod |-> None]

\* Element sets a batch run may be given for catalog number c.
BatchTles(c) ==
    {Tle(c, "ok", ConstOrbit(p)) : p \in {0, 10000, 50000}}
        \cup {Tle(c, "ok", FailOrbit), Tle(c, "invalid", ConstOrbit(0))}

BatchHours == {0, 1}
RiskKeys == {"NORMAL", "HIGH RISK", "CRITICAL"}

RiskRankUnknownHighest(level) ==
    CASE level = "NORMAL" -> 0
      [] level = "HIGH RISK" -> 1
      [] level = "CRITICAL" -> 2
      [] OTHER -> 3
RiskRankSwapped(level) ==
    CASE level = "NORMAL" -> 0
      [] level = "HIGH RISK" -> 2
      [] level = "CRITICAL" -> 1
      [] OTHER -> 0
\* risk_levels.get(level, 0), lines 144-145 and 178
RiskRank(level) ==
    CASE level = "NORMAL" -> 0
      [] level = "HIGH RISK" -> 1
      [] level = "CRITICAL" -> 2
      [] OTHER -> 0

\* line 179: if result_level >= min_level
PassesFilterStrict(result_level, min_level) == result_level > min_level
PassesFilter(result_level, min_level) == result_level >= min_level

\* satellites_tle_data.get(catnr)
TleOf(catnr) == satellites_tle_data[catnr]

\* `if not sat1_tle` / `if not sat2_tle`, lines 155 and 164
HasTleAlways(tle) == TRUE
HasTle(tle) == ~IsNone(tle)

\* enumerate(tracked_satellites[i+1:], start=i+1), line 160
InnerStartAtFirst(k) == 1
InnerStart(k) == k + 1

\* `except Exception`, line 182: every exception of the call is caught.
CatchesOnlyValueError(exc) == exc = "ValueError"
ExceptClauseCatches(exc) == TRUE

\* `continue`, line 184: the inner loop goes on with the next sat2.
BreakAfterExcept(k) == NumSats + 1
NextAfterExcept(k) == k + 1

\* The call of line 171.  In the injected run the call for the pair `inject`
\* raises an unexpected error.  Given None for an element set the call
\* raises TypeError at line 53.
FinderCall(catnr1, catnr2) ==
    IF run = "injected" /\ inject = Some({catnr1, catnr2})
    THEN Raise("RuntimeError")
    ELSE IF IsNone(TleOf(catnr1)) \/ IsNone(TleOf(catnr2))
    THEN Raise("TypeError")
    ELSE calculate_conjunction_risk(Get(TleOf(catnr1)), Get(TleOf(catnr2)),
                                    hours_ahead, 1)

\* ------------------------------------------------- monitor_all_pairs
IdleFinder ==
    /\ f_sat1 = Tle(1, "ok", ConstOrbit(0))
    /\ f_sat2 = Tle(2, "ok", ConstOrbit(0))
    /\ f_hours = 0
    /\ f_step = 1
    /\ f_out12 = None
    /\ f_out21 = None
    /\ f_positions = None

\* The start of monitor_all_pairs with min_risk_level drawn from `levels`.
InitBatch(levels) ==
    /\ satellites_tle_data \in
          {f \in [Catnrs -> UNION {{None} \cup {Some(t) : t \in BatchTles(c)} : c \in Catnrs}] :
              \A c \in Catnrs : f[c] = None \/ Get(f[c]).OBJECT_NAME = c}
    /\ hours_ahead \in BatchHours
    /\ min_risk_level \in levels
    /\ pc = "outer"
    /\ i = 1
    /\ j = 1
    /\ results = <<>>
    /\ total_pairs = 0
    /\ calls = <<>>
    /\ run = "base"
    /\ inject = None
    /\ baseline = None
    /\ printed = <<>>
    /\ IdleFinder
    /\ IdleFresh
    /\ IdleFetch
    /\ IdleRisks

Init ==
    /\ InitBatch(RiskKeys)
    /\ IdleStore

inputs == <<satellites_tle_data, hours_ahead, min_risk_level>>

\* lines 151-157: sat1 has no element set, skip it
SkipSat1 ==
    /\ pc = "outer"
    /\ i <= NumSats
    /\ ~HasTle(TleOf(tracked_satellites[i].catnr))
    /\ i' = i + 1
    /\ printed' = Append(printed, [kind |-> "skipping",
                                   name |-> tracked_satellites[i].name])
    /\ UNCHANGED <<inputs, pc, j, results, total_pairs, calls, run, inject,
                   baseline, finder_vars, store_vars, fresh_vars,
                   fetch_vars, risk_vars>>

\* line 160: enter the inner loop
EnterInner ==
    /\ pc = "outer"
    /\ i <= NumSats
    /\ HasTle(TleOf(tracked_satellites[i].catnr))
    /\ j' = InnerStart(i)
    /\ pc' = "inner"
    /\ UNCHANGED <<inputs, i, printed, results, total_pairs, calls, run, inject,
                   baseline, finder_vars, store_vars, fresh_vars,
                   fetch_vars, risk_vars>>

\* lines 161-165: sat2 has no element set, skip the pair
SkipSat2Counted ==
    /\ pc = "inner"
    /\ j <= NumSats
    /\ ~HasTle(TleOf(tracked_satellites[j].catnr))
    /\ j' = j + 1
    /\ total_pairs' = total_pairs + 1
    /\ UNCHANGED <<inputs, pc, i, printed, results, calls, run, inject,
                   baseline, finder_vars, store_vars, fresh_vars,
                   fetch_vars, risk_vars>>
SkipSat2 ==
    /\ pc = "inner"
    /\ j <= NumSats
    /\ ~HasTle(TleOf(tracked_satellites[j].catnr))
    /\ j' = j + 1
    /\ UNCHANGED <<inputs, pc, i, printed, results, total_pairs, calls, run, inject,
                   baseline, finder_vars, store_vars, fresh_vars,
                   fetch_vars, risk_vars>>

\* lines 167-184: count the pair, call the Finder, filter, or catch
EvalPair ==
    /\ pc = "inner"
    /\ j <= NumSats
    /\ HasTle(TleOf(tracked_satellites[j].catnr))
    /\ LET catnr1 == tracked_satellites[i].catnr
           catnr2 == tracked_satellites[j].catnr
           out == FinderCall(catnr1, catnr2)
           min_level == RiskRank(min_risk_level)
       IN  /\ total_pairs' = total_pairs + 1
           /\ calls' = Append(calls, [catnr1 |-> catnr1, catnr2 |-> catnr2,
                                      out |-> out])
           /\ IF out.ok
              THEN /\ results' =
                         IF PassesFilter(RiskRank(out.result.risk_level), min_level)
                         THEN Append(results, out.result)
                         ELSE results
                   /\ j' = j + 1
                   /\ pc' = pc
                   /\ printed' = printed
              ELSE IF ExceptClauseCatches(out.exc)
              THEN /\ j' = NextAfterExcept(j)
                   /\ printed' = Append(printed,     \* line 183
                          [kind |-> "error checking",
                           name |-> tracked_satellites[i].name,
                           other |-> tracked_satellites[j].name,
                           exc |-> out.exc])
                   /\ UNCHANGED <<results, pc>>
              ELSE /\ pc' = "raised"
                   /\ UNCHANGED <<results, j, printed>>
    /\ UNCHANGED <<inputs, i, run, inject, baseline, finder_vars, store_vars, fresh_vars,
                   fetch_vars, risk_vars>>

\* the inner loop is exhausted: next i
InnerDone ==
    /\ pc = "inner"
    /\ j > NumSats
    /\ i' = i + 1
    /\ pc' = "outer"
    /\ UNCHANGED <<inputs, j, printed, results, total_pairs, calls, run, inject,
                   baseline, finder_vars, store_vars, fresh_vars,
                   fetch_vars, risk_vars>>

\* lines 186-187: the outer loop is exhausted, return results
ReturnResults ==
    /\ pc = "outer"
    /\ i > NumSats
    /\ pc' = "done"
    /\ printed' = Append(printed, [kind |-> "checked", n |-> total_pairs])
    /\ UNCHANGED <<inputs, i, j, results, total_pairs, calls, run, inject,
                   baseline, finder_vars, store_vars, fresh_vars,
                   fetch_vars, risk_vars>>

\* The same batch is run again, on the same inputs, with a failure injected
\* for one pair that the base run evaluated.
StartInjectedRun ==
    /\ pc = "done"
    /\ run = "base"
    /\ \E k \in 1..Len(calls) :
          inject' = Some({calls[k].catnr1, calls[k].catnr2})
    /\ baseline' = Some(results)
    /\ run' = "injected"
    /\ pc' = "outer"
    /\ i' = 1
    /\ j' = 1
    /\ results' = <<>>
    /\ total_pairs' = 0
    /\ calls' = <<>>
    /\ printed' = <<>>
    /\ UNCHANGED <<inputs, finder_vars, store_vars, fresh_vars,
                   fetch_vars, risk_vars>>

Next ==
    \/ SkipSat1
    \/ EnterInner
    \/ SkipSat2
    \/ EvalPair
    \/ InnerDone
    \/ ReturnResults
    \/ StartInjectedRun

Spec == Init /\ [][Next]_vars

\* The same batch, called with a min_risk_level that is not a key of
\* risk_levels (line 145: risk_levels.get(min_risk_level, 0)).
UnknownKeys == {"HIGH_RISK"}
InitUnknownKey ==
    /\ InitBatch(UnknownKeys)
    /\ IdleStore
SpecUnknownKey == InitUnknownKey /\ [][Next]_vars

\* ------------------------------------ calculate_conjunction_risk alone
\* The Finder as a pure function: Init draws two element sets (sat2 may be
\* the very element set of sat1) and a grid <<hours_ahead, step_minutes>>;
\* the call is made for (sat1, sat2) and then for (sat2, sat1).
FinderTles(name) ==
    {Tle(name, "ok", o) : o \in Orbits}
        \cup {Tle(name, "missing", FailOrbit), Tle(name, "invalid", FailOrbit)}
        \cup {TleSub(name, "ok", ConstOrbit(p), sub) :
                  p \in Positions, sub \in SubpointStates \ {"ok"}}

FinderGrids == {<<0, 1>>, <<1, 1>>, <<1, 7>>, <<1, 30>>, <<1, 60>>, <<2, 45>>}

IdleBatch ==
    /\ satellites_tle_data = [c \in Catnrs |-> None]
    /\ hours_ahead = 0
    /\ min_risk_level = "NORMAL"
    /\ pc = "idle"
    /\ i = 1
    /\ j = 1
    /\ results = <<>>
    /\ total_pairs = 0
    /\ calls = <<>>
    /\ run = "base"
    /\ inject = None
    /\ baseline = None
    /\ printed = <<>>

\* The default window of 48 h at 1 min is drawn with two objects that keep
\* 0.5 km apart (or with one object twice).
InitFinder ==
    /\ \/ /\ f_sat1 \in FinderTles(1)
          /\ f_sat2 \in FinderTles(2) \cup {f_sat1}
          /\ \E g \in FinderGrids : f_hours = g[1] /\ f_step = g[2]
       \/ /\ f_sat1 = Tle(1, "ok", ConstOrbit(0))
          /\ f_sat2 \in {Tle(2, "ok", ConstOrbit(5000)), f_sat1}
          /\ f_hours = 48
          /\ f_step = 1
    /\ f_out12 = None
    /\ f_out21 = None
    /\ f_positions = None
    /\ IdleBatch
    /\ IdleStore
    /\ IdleFresh
    /\ IdleFetch
    /\ IdleRisks

FinderEval12 ==
    /\ IsNone(f_out12)
    /\ f_out12' = Some(calculate_conjunction_risk(f_sat1, f_sat2, f_hours, f_step))
    /\ UNCHANGED <<f_sat1, f_sat2, f_hours, f_step, f_out21, f_positions,
                   batch_vars, store_vars, fresh_vars,
                   fetch_vars, risk_vars>>

FinderEval21 ==
    /\ ~IsNone(f_out12)
    /\ IsNone(f_out21)
    /\ f_out21' = Some(calculate_conjunction_risk(f_sat2, f_sat1, f_hours, f_step))
    /\ UNCHANGED <<f_sat1, f_sat2, f_hours, f_step, f_out12, f_positions,
                   batch_vars, store_vars, fresh_vars,
                   fetch_vars, risk_vars>>

\* The single-object sampler over the same window, for sat1 (an
\* EarthSatellite exists only for an element set that parses).
FinderSample ==
    /\ ~IsNone(f_out21)
    /\ IsNone(f_positions)
    /\ f_sat1.lines = "ok"
    /\ f_positions' = Some(calculate_positions_over_time(f_sat1, f_hours * 60,
                                                         f_step * 60))
    /\ UNCHANGED <<f_sat1, f_sat2, f_hours, f_step, f_out12, f_out21,
                   batch_vars, store_vars, fresh_vars,
                   fetch_vars, risk_vars>>

NextFinder ==
    \/ FinderEval12
    \/ FinderEval21
    \/ FinderSample

SpecFinder == InitFinder /\ [][NextFinder]_vars


\* ------------------------------------------------- the persisted report
\* batch_monitor.save_results and main()'s tail on one side,
\* dashboard.load_conjunction_results on the other; both use
\* <project root>/data/conjunction_results.json.
MaxRuns == 2

\* Result lists a batch run may end with.
StoreResultA ==
    calculate_conjunction_risk(Tle(1, "ok", ConstOrbit(0)),
                               Tle(2, "ok", ConstOrbit(4)), 1, 60).result
StoreResultB ==
    calculate_conjunction_risk(Tle(1, "ok", ConstOrbit(0)),
                               Tle(3, "ok", ConstOrbit(50000)), 1, 60).result
ResultLists ==
    {<<>>, <<StoreResultA>>, <<StoreResultB>>, <<StoreResultA, StoreResultB>>}

\* datetime.isoformat() and str(datetime): a string, not the datetime.
IsoFormat(t) == [iso |-> t]
Str(t) == [str |-> t]

\* lines 211-215
OutputData(rs, now) ==
    [timestamp |-> IsoFormat(now), total_risks |-> Len(rs), results |-> rs]

\* What json.dump(..., default=str) writes for one result dictionary: the
\* datetime goes through str(); a key the dictionary lacks stays absent.
JsonResult(r) ==
    [min_distance_km |-> r.min_distance_km,
     min_distance_time |-> Str(Get(r.min_distance_time)),
     risk_level |-> r.risk_level,
     sat1_name |-> r.sat1_name,
     sat2_name |-> r.sat2_name,
     total_steps |-> r.total_steps,
     analysis_period_hours |-> r.analysis_period_hours,
     step_size_minutes |-> r.step_size_minutes,
     sat1_position_at_closest |-> r.sat1_position_at_closest,
     sat2_position_at_closest |-> r.sat2_position_at_closest]

\* The text json.dump produces, as the chunks it writes in order.
JsonDump(output_data) ==
    <<[k |-> "open", v |-> None],
      [k |-> "timestamp", v |-> Some(output_data.timestamp)],
      [k |-> "total_risks", v |-> Some(output_data.total_risks)]>>
    \o [m \in 1..Len(output_data.results) |->
            [k |-> "result", v |-> Some(JsonResult(output_data.results[m]))]]
    \o <<[k |-> "close", v |-> None]>>

\* json.load: the dictionary, or None when the text is not one JSON document
\* (json.JSONDecodeError).
WellFormed(content) ==
    /\ Len(content) >= 4
    /\ content[1].k = "open"
    /\ content[2].k = "timestamp"
    /\ content[3].k = "total_risks"
    /\ \A m \in 4..(Len(content) - 1) : content[m].k = "result"
    /\ content[Len(content)].k = "close"
JsonLoad(content) ==
    IF WellFormed(content)
    THEN Some([timestamp |-> Get(content[2].v),
               total_risks |-> Get(content[3].v),
               results |-> [m \in 1..(Len(content) - 4) |-> Get(content[m + 3].v)]])
    ELSE None

\* open(output_file, 'w'): the file is created, or truncated to nothing.
OpenForAppend(f) == IF IsNone(f) THEN Some(<<>>) ELSE f
OpenForWriting(f) == Some(<<>>)

\* dashboard.load_conjunction_results(): None when the file does not exist;
\* a warning and None when it cannot be read as JSON.
load_conjunction_results(f) ==
    IF IsNone(f)
    THEN [exists |-> FALSE, ret |-> None, warning |-> FALSE]
    ELSE LET data == JsonLoad(Get(f))
         IN  [exists |-> TRUE, ret |-> data, warning |-> IsNone(data)]

Callers == {"main", "direct"}

InitStore ==
    /\ IdleStore
    /\ IdleBatch
    /\ IdleFinder
    /\ IdleFresh
    /\ IdleFetch
    /\ IdleRisks

\* save_results(results), lines 201-218 up to the open(): the file is
\* created or truncated.  A call may follow a completed or a failed one.
SaveOpenStep(rs, caller) ==
    /\ w_pc \in {"idle", "failed"}
    /\ clock < MaxRuns
    /\ w_data' = Some([output_data |-> OutputData(rs, clock + 1),
                       caller |-> caller])
    /\ last_run' = IF caller = "main" THEN last_run ELSE None
    /\ file' = OpenForWriting(file)
    /\ w_pc' = "writing"
    /\ clock' = clock + 1
    /\ UNCHANGED <<saved, loaded>>

\* line 219, json.dump: the text reaches the file piece by piece
SaveWriteStep ==
    /\ w_pc = "writing"
    /\ Len(Get(file)) < Len(JsonDump(Get(w_data).output_data))
    /\ file' = Some(Append(Get(file),
                           JsonDump(Get(w_data).output_data)[Len(Get(file)) + 1]))
    /\ UNCHANGED <<w_pc, w_data, clock, saved, last_run, loaded>>

\* the end of the with block: the file is closed, save_results returns
SaveCloseStep ==
    /\ w_pc = "writing"
    /\ Len(Get(file)) = Len(JsonDump(Get(w_data).output_data))
    /\ w_pc' = "idle"
    /\ saved' = Append(saved, Get(w_data).output_data)
    /\ last_run' = IF Get(w_data).caller = "main"
                   THEN Some(Get(w_data).output_data)
                   ELSE last_run
    /\ w_data' = None
    /\ UNCHANGED <<file, clock, loaded>>

\* json.dump or a write raises inside the with block (line 219, e.g. the
\* disk is full): the file is closed with what had been written and the
\* exception leaves save_results.
SaveFailStep ==
    /\ w_pc = "writing"
    /\ Len(Get(file)) < Len(JsonDump(Get(w_data).output_data))
    /\ w_pc' = "failed"
    /\ w_data' = None
    /\ UNCHANGED <<file, clock, saved, last_run, loaded>>

\* save_results called by main() only for a non-empty list (line 332), or
\* by any other caller.
SaveOpen ==
    /\ \E rs \in ResultLists, caller \in Callers :
          /\ caller = "main" => rs # <<>>
          /\ SaveOpenStep(rs, caller)
    /\ UNCHANGED <<batch_vars, finder_vars, fresh_vars, fetch_vars, risk_vars>>

SaveWrite ==
    /\ SaveWriteStep
    /\ UNCHANGED <<batch_vars, finder_vars, fresh_vars, fetch_vars, risk_vars>>

SaveClose ==
    /\ SaveCloseStep
    /\ UNCHANGED <<batch_vars, finder_vars, fresh_vars, fetch_vars, risk_vars>>

SaveFail ==
    /\ SaveFailStep
    /\ UNCHANGED <<batch_vars, finder_vars, fresh_vars, fetch_vars, risk_vars>>

\* main(), lines 332-336 with an empty result list: a message is printed
\* and nothing is written.
MainNoRisks ==
    /\ w_pc \in {"idle", "failed"}
    /\ clock < MaxRuns
    /\ clock' = clock + 1
    /\ last_run' = Some(OutputData(<<>>, clock + 1))
    /\ UNCHANGED <<file, w_pc, w_data, saved, loaded,
                   batch_vars, finder_vars, fresh_vars,
                   fetch_vars, risk_vars>>

\* The dashboard reads the report, at any moment.  The outcome is kept with
\* what the writer had completed and was writing at that moment.
Load ==
    /\ loaded' = Some([out |-> load_conjunction_results(file),
                       writing |-> w_pc = "writing",
                       failed |-> w_pc = "failed",
                       prev |-> IF saved = <<>> THEN None
                                ELSE Some(saved[Len(saved)]),
                       new |-> IF IsNone(w_data) THEN None
                               ELSE Some(Get(w_data).output_data)])
    /\ UNCHANGED <<file, w_pc, w_data, clock, saved, last_run,
                   batch_vars, finder_vars, fresh_vars,
                   fetch_vars, risk_vars>>

NextStore ==
    \/ SaveOpen
    \/ SaveWrite
    \/ SaveClose
    \/ SaveFail
    \/ MainNoRisks
    \/ Load

SpecStore == InitStore /\ [][NextStore]_vars


\* ----------------------------------------------------------- main()
\* main() from the call of monitor_all_pairs (line 319) to its end: the
\* pair loop, the printed report, then save_results.  A report of an
\* earlier run may be in place.  The run may be interrupted during the pair
\* loop (KeyboardInterrupt is not an Exception: nothing catches it).
PreviousReport == OutputData(<<StoreResultA>>, 0)

InitMain ==
    /\ InitBatch({"NORMAL"})
    /\ \/ /\ file = None
          /\ saved = <<>>
       \/ /\ file = Some(JsonDump(PreviousReport))
          /\ saved = <<PreviousReport>>
    /\ w_pc = "idle"
    /\ w_data = None
    /\ clock = 0
    /\ last_run = None
    /\ loaded = None

MainInterrupt ==
    /\ pc \in {"outer", "inner"}
    /\ pc' = "interrupted"
    /\ UNCHANGED <<inputs, i, j, results, total_pairs, calls, run, inject,
                   baseline, printed, finder_vars, store_vars, fresh_vars,
                   fetch_vars, risk_vars>>

\* line 329: print(format_batch_report(results))
MainReport ==
    /\ pc = "done"
    /\ pc' = "reported"
    /\ printed' = Append(printed, [kind |-> "report", results |-> results])
    /\ UNCHANGED <<inputs, i, j, results, total_pairs, calls, run, inject,
                   baseline, finder_vars, store_vars, fresh_vars,
                   fetch_vars, risk_vars>>

\* Where main() calls save_results: after monitor_all_pairs has returned
\* and the report is printed (lines 319-333).
SaveStartsAnywhere(p) == p \in {"outer", "inner", "reported"}
SaveStartsAt(p) == p = "reported"

\* main() has no handler around save_results: its exception ends the run.
AfterSaveFailureSwallowed == "finished"
AfterSaveFailure == "raised"

\* lines 332-333
MainSaveOpen ==
    /\ SaveStartsAt(pc)
    /\ results # <<>>
    /\ SaveOpenStep(results, "main")
    /\ pc' = "saving"
    /\ UNCHANGED <<inputs, i, j, results, total_pairs, calls, run, inject,
                   baseline, printed, finder_vars, fresh_vars,
                   fetch_vars, risk_vars>>

MainSaveWrite ==
    /\ pc = "saving"
    /\ SaveWriteStep
    /\ UNCHANGED <<batch_vars, finder_vars, fresh_vars, fetch_vars, risk_vars>>

\* save_results returns; line 334 prints where the results were saved
MainSaveClose ==
    /\ pc = "saving"
    /\ SaveCloseStep
    /\ pc' = "finished"
    /\ printed' = Append(printed, [kind |-> "saved"])
    /\ UNCHANGED <<inputs, i, j, results, total_pairs, calls, run, inject,
                   baseline, finder_vars, fresh_vars, fetch_vars, risk_vars>>

MainSaveFail ==
    /\ pc = "saving"
    /\ SaveFailStep
    /\ pc' = AfterSaveFailure
    /\ UNCHANGED <<inputs, i, j, results, total_pairs, calls, run, inject,
                   baseline, printed, finder_vars, fresh_vars,
                   fetch_vars, risk_vars>>

\* lines 335-336
MainNoResults ==
    /\ pc = "reported"
    /\ results = <<>>
    /\ pc' = "finished"
    /\ printed' = Append(printed, [kind |-> "no results file created"])
    /\ UNCHANGED <<inputs, i, j, results, total_pairs, calls, run, inject,
                   baseline, finder_vars, store_vars, fresh_vars,
                   fetch_vars, risk_vars>>

NextMain ==
    \/ SkipSat1
    \/ EnterInner
    \/ SkipSat2
    \/ EvalPair
    \/ InnerDone
    \/ ReturnResults
    \/ MainInterrupt
    \/ MainReport
    \/ MainSaveOpen
    \/ MainSaveWrite
    \/ MainSaveClose
    \/ MainSaveFail
    \/ MainNoResults

SpecMain == InitMain /\ [][NextMain]_vars


\* ------------------------------------------- get_data_freshness_status
\* Times are minutes; hours_old is carried as minutes (hours_old * 60).
FRESH_THRESHOLD == 7 * 24
WARNING_THRESHOLD == 10 * 24
EXPIRED_THRESHOLD == 14 * 24

FreshnessStatusInclusive(age) ==
    IF age <= FRESH_THRESHOLD * 60 THEN "fresh"
    ELSE IF age <= WARNING_THRESHOLD * 60 THEN "warning"
    ELSE IF age <= EXPIRED_THRESHOLD * 60 THEN "old"
    ELSE "expired"
\* lines 647-654
FreshnessStatus(age) ==
    IF age < FRESH_THRESHOLD * 60 THEN "fresh"
    ELSE IF age < WARNING_THRESHOLD * 60 THEN "warning"
    ELSE IF age < EXPIRED_THRESHOLD * 60 THEN "old"
    ELSE "expired"

\* get_data_freshness_status(epoch_str) at time `now`; an epoch string that
\* cannot be parsed ends in the bare except (lines 655-656).
get_data_freshness_status(epoch, now) ==
    IF IsNone(epoch)
    THEN [status |-> "expired", hours_old |-> 999 * 60]
    ELSE LET age == now - Get(epoch)
         IN  [status |-> FreshnessStatus(age), hours_old |-> age]

\* Ages around every threshold, and an epoch in the future.
FreshAges ==
    {0 - 60, 0, 1, 60}
        \cup UNION {{t * 60 - 1, t * 60, t * 60 + 1} :
                       t \in {FRESH_THRESHOLD, WARNING_THRESHOLD, EXPIRED_THRESHOLD}}
        \cup {8 * 24 * 60, 12 * 24 * 60, 30 * 24 * 60}
FreshNows == {0, 45, 30000, 1000000}

InitFresh ==
    /\ fr_now \in FreshNows
    /\ fr_epoch \in {None} \cup {Some(fr_now - a) : a \in FreshAges}
    /\ fr_out = None
    /\ IdleBatch
    /\ IdleFinder
    /\ IdleStore
    /\ IdleFetch
    /\ IdleRisks

FreshEval ==
    /\ IsNone(fr_out)
    /\ fr_out' = Some(get_data_freshness_status(fr_epoch, fr_now))
    /\ UNCHANGED <<fr_epoch, fr_now, batch_vars, finder_vars, store_vars,
                   fetch_vars, risk_vars>>

NextFresh == FreshEval

SpecFresh == InitFresh /\ [][NextFresh]_vars


\* ------------------------------------------ fetch_all_satellite_tles
\* What one requests.get(..., timeout=10) and the checks after it come to:
\* a usable 3LE text, a text the checks refuse (lines 75-100), or an
\* exception (lines 112-117); the timeout bounds the request.
RequestExceptions == {"http_error", "timeout", "connection_error"}
RefusedTexts == {"empty", "short", "bad_prefix", "bad_catnr"}
ResponseKinds == {"ok", "unexpected_error"} \cup RefusedTexts \cup RequestExceptions

\* lines 102-110: the entry stored for a usable text, or nothing
ParseResponse(catnr, kind) ==
    IF kind = "ok" THEN Some(Tle(catnr, "ok", ConstOrbit(0))) ELSE None

\* every branch of the loop body ends the iteration: the next catalog
\* number follows (continue, lines 77, 84, 93, 100, 114, 117, or line 110)
AbortOnFailure(k, kind) == IF kind = "ok" THEN k + 1 ELSE NumSats + 1
NextCatnr(k, kind) == k + 1

\* the call: the first n configured objects are tracked, n may be 0
InitFetch ==
    /\ ft_responses \in UNION {[1..n -> ResponseKinds] : n \in 0..NumSats}
    /\ ft_pc = "loop"
    /\ ft_k = 1
    /\ ft_data = [k \in 1..Len(ft_responses) |-> None]
    /\ ft_requests = <<>>
    /\ IdleBatch
    /\ IdleFinder
    /\ IdleStore
    /\ IdleFresh
    /\ IdleRisks

\* one iteration of `for catnr in catnr_list` (lines 64-117)
FetchOne ==
    /\ ft_pc = "loop"
    /\ ft_k <= Len(ft_responses)
    /\ LET catnr == tracked_satellites[ft_k].catnr
           kind == ft_responses[ft_k]
       IN  /\ ft_requests' = Append(ft_requests, catnr)
           /\ ft_data' = [ft_data EXCEPT ![ft_k] = ParseResponse(catnr, kind)]
           /\ ft_k' = NextCatnr(ft_k, kind)
    /\ UNCHANGED <<ft_responses, ft_pc, batch_vars, finder_vars, store_vars,
                   fresh_vars, risk_vars>>

\* lines 57-58 (no tracked object) and line 120
FetchReturn ==
    /\ ft_pc = "loop"
    /\ ft_k > Len(ft_responses)
    /\ ft_pc' = "returned"
    /\ UNCHANGED <<ft_responses, ft_k, ft_data, ft_requests, batch_vars,
                   finder_vars, store_vars, fresh_vars, risk_vars>>

NextFetch ==
    \/ FetchOne
    \/ FetchReturn

\* the function runs on: a step that can be taken is taken
SpecFetch == InitFetch /\ [][NextFetch]_vars /\ WF_vars(NextFetch)


\* ------------------------------------------------ get_satellite_risks
\* Names are texts (sequences of characters).  The dashboard asks with the
\* configured name of a tracked object; the report holds the names of the
\* element sets (OBJECT_NAME), as the provider spells them.
MaxReportLen == 3

ConfigName(c) ==
    CASE c = 1 -> <<"I", "S", "S">>
      [] c = 2 -> <<"I", "S", "S", " ", "D", "E", "B">>
      [] c = 3 -> <<"H", "S", "T">>
      [] OTHER -> [m \in 1..c |-> "X"]
ProviderName(c) ==
    CASE c = 1 -> <<"I", "S", "S", " ", "(", "Z", ")">>
      [] OTHER -> ConfigName(c)

\* Python `a in b` for strings
IsSubstring(a, b) ==
    \E s \in 0..(Len(b) - Len(a)) : SubSeq(b, s + 1, s + Len(a)) = a

\* a result of the report for the pair (a, b); its distance tells the pair
RiskPairs == {ab \in Catnrs \X Catnrs : ab[1] < ab[2]}
ReportResult(ab) ==
    [sat1_name |-> ProviderName(ab[1]),
     sat2_name |-> ProviderName(ab[2]),
     risk_level |-> "HIGH RISK",
     min_distance_km |-> 10 * ab[1] + ab[2],
     min_distance_time |-> 0,
     sat1_position_at_closest |-> ab[1],
     sat2_position_at_closest |-> ab[2]]
Reports ==
    UNION {[1..n -> {ReportResult(ab) : ab \in RiskPairs}] : n \in 0..MaxReportLen}

\* lines 470-484, the test of one result
NameMatches(sat_name, name) == IsSubstring(sat_name, name)

\* lines 466-486
get_satellite_risks(conjunction_results, catnr, sat_name) ==
    IF IsNone(conjunction_results)
    THEN <<>>
    ELSE LET Involved(result) ==
                 \/ NameMatches(sat_name, result.sat1_name)
                 \/ NameMatches(sat_name, result.sat2_name)
             hits == SelectSeq(Get(conjunction_results).results, Involved)
         IN  [m \in 1..Len(hits) |->
                 LET first == NameMatches(sat_name, hits[m].sat1_name)
                 IN  [risk_level |-> hits[m].risk_level,
                      distance_km |-> hits[m].min_distance_km,
                      time |-> hits[m].min_distance_time,
                      other_satellite |-> IF first THEN hits[m].sat2_name
                                          ELSE hits[m].sat1_name,
                      position_at_closest |->
                          IF first THEN hits[m].sat1_position_at_closest
                          ELSE hits[m].sat2_position_at_closest]]

InitRisks ==
    /\ rk_report \in {None} \cup
          {Some([timestamp |-> 0, total_risks |-> Len(rs), results |-> rs]) :
              rs \in Reports}
    /\ rk_query \in 1..NumSats
    /\ rk_out = None
    /\ IdleBatch
    /\ IdleFinder
    /\ IdleStore
    /\ IdleFresh
    /\ IdleFetch

\* the dashboard's call, lines 2171, 2259, 2635
RisksEval ==
    /\ IsNone(rk_out)
    /\ rk_out' = Some(get_satellite_risks(
                          rk_report,
                          tracked_satellites[rk_query].catnr,
                          ConfigName(tracked_satellites[rk_query].catnr)))
    /\ UNCHANGED <<rk_report, rk_query, batch_vars, finder_vars, store_vars,
                   fresh_vars, fetch_vars>>

NextRisks == RisksEval

SpecRisks == InitRisks /\ [][NextRisks]_vars


\* ====================================================================
\* Properties
\* ====================================================================
\* Objects that have an element set, and the pairs the loop has to evaluate.
Evaluable == {c \in Catnrs : ~IsNone(satellites_tle_data[c])}
ExpectedPairs ==
    {<<tracked_satellites[a].catnr, tracked_satellites[b].catnr>> :
        <<a, b>> \in {ab \in (1..NumSats) \X (1..NumSats) :
                        /\ ab[1] < ab[2]
                        /\ tracked_satellites[ab[1]].catnr \in Evaluable
                        /\ tracked_satellites[ab[2]].catnr \in Evaluable}}
CallPairs == {<<calls[k].catnr1, calls[k].catnr2>> : k \in DOMAIN calls}
NumFailed == Cardinality({k \in DOMAIN calls : ~calls[k].out.ok})
NumReturned == Cardinality({k \in DOMAIN calls : calls[k].out.ok})

\* C1: an exception raised while a pair is evaluated never aborts the batch:
\* no run ends by an escaping exception, and when a run has returned the
\* Finder was called for exactly the pairs of objects that both have an
\* element set, whichever of those calls failed.
C1_FailureNeverAborts ==
    /\ pc # "raised"
    /\ pc = "done" => CallPairs = ExpectedPairs

\* a finished run in which a failed pair was followed by further attempts
C1_Witness ==
    /\ pc = "done"
    /\ \E k \in DOMAIN calls :
          /\ ~calls[k].out.ok
          /\ k < Len(calls)
          /\ calls[Len(calls)].out.ok

\* C2: the run with a failure injected for pair P returns, for every pair
\* other than P, the same results in the same order as the run without it.
C2_Isolation ==
    run = "injected" =>
        /\ pc # "raised"
        /\ pc = "done" =>
              LET P == Get(inject)
                  Other(r) == {r.sat1_name, r.sat2_name} # P
              IN  /\ SelectSeq(results, Other) = SelectSeq(Get(baseline), Other)
                  /\ SelectSeq(results, Other) = results

\* the injected run has finished, P had a result in the base run and pairs
\* evaluated after P have results
C2_Witness ==
    /\ run = "injected"
    /\ pc = "done"
    /\ Len(Get(baseline)) = Len(results) + 1
    /\ \E x \in DOMAIN results :
          \E k \in DOMAIN calls :
              /\ {calls[k].catnr1, calls[k].catnr2} = Get(inject)
              /\ \E m \in DOMAIN calls :
                    /\ m > k
                    /\ calls[m].out.ok
                    /\ calls[m].out.result = results[x]

\* C3: with n objects that have an element set the run counts exactly
\* n(n-1)/2 attempts, one per Finder call, and with k failed calls
\* attempts - k results exist before the filter (all of them are in the
\* list when the minimum is NORMAL).
C3_PairCount ==
    pc = "done" =>
        LET n == Cardinality(Evaluable)
        IN  /\ 2 * total_pairs = n * (n - 1)
            /\ total_pairs = Len(calls)
            /\ NumReturned = total_pairs - NumFailed
            /\ min_risk_level = "NORMAL" => Len(results) = total_pairs - NumFailed

\* a finished run over three objects with element sets, one of the three
\* calls failed
C3_Witness ==
    /\ pc = "done"
    /\ Cardinality(Evaluable) = 3
    /\ total_pairs = 3
    /\ NumFailed = 1

\* C4: no unordered pair is given to the Finder twice and no object is
\* paired with itself.
C4_PairCanonical ==
    /\ \A k \in DOMAIN calls : calls[k].catnr1 # calls[k].catnr2
    /\ \A k1, k2 \in DOMAIN calls :
          k1 # k2 => {calls[k1].catnr1, calls[k1].catnr2}
                        # {calls[k2].catnr1, calls[k2].catnr2}

\* a finished run that called the Finder for at least three pairs
C4_Witness ==
    /\ pc = "done"
    /\ Len(calls) >= 3

\* C5: the returned list holds a pair's result exactly when the pair was
\* evaluated successfully and its risk level is at or above the configured
\* minimum, CRITICAL > HIGH RISK > NORMAL.
Meets(level, minimum) ==
    \/ minimum = "NORMAL"
    \/ minimum = "HIGH RISK" /\ level \in {"HIGH RISK", "CRITICAL"}
    \/ minimum = "CRITICAL" /\ level = "CRITICAL"

C5_MinRiskFilter ==
    (pc = "done" /\ min_risk_level \in RiskKeys) =>
        /\ \A a, b \in 1..NumSats :
              a < b =>
                LET c1 == tracked_satellites[a].catnr
                    c2 == tracked_satellites[b].catnr
                    ev == FinderCall(c1, c2)
                    entries == {x \in DOMAIN results :
                                   /\ results[x].sat1_name = c1
                                   /\ results[x].sat2_name = c2}
                    wanted == /\ c1 \in Evaluable
                              /\ c2 \in Evaluable
                              /\ ev.ok
                              /\ Meets(ev.result.risk_level, min_risk_level)
                IN  /\ wanted => Cardinality(entries) = 1
                    /\ ~wanted => entries = {}
                    /\ \A x \in entries : results[x] = ev.result
        /\ \A x \in DOMAIN results : results[x].sat1_name < results[x].sat2_name

\* a finished run with minimum HIGH RISK that kept one result and dropped a
\* NORMAL one
C5_Witness ==
    /\ pc = "done"
    /\ min_risk_level = "HIGH RISK"
    /\ Len(results) >= 1
    /\ \E k \in DOMAIN calls :
          calls[k].out.ok /\ calls[k].out.result.risk_level = "NORMAL"


\* C7: a pair whose every sample fails makes the Finder raise, no call ever
\* returns a result with an infinite minimum or without a time, and no such
\* result and no result of such a pair is in the list.
NoValidSamples(sat1, sat2, hours) ==
    \A step \in 0..(hours * 60) : IsNone(At(sat1, step)) \/ IsNone(At(sat2, step))

C7_NoValidSamplesExcluded ==
    /\ \A k \in DOMAIN calls :
          LET c == calls[k]
          IN  /\ (/\ c.catnr1 \in Evaluable
                  /\ c.catnr2 \in Evaluable
                  /\ NoValidSamples(Get(TleOf(c.catnr1)), Get(TleOf(c.catnr2)),
                                    hours_ahead))
                 => ~c.out.ok
              /\ c.out.ok => /\ c.out.result.min_distance < Inf
                             /\ ~IsNone(c.out.result.min_distance_time)
    /\ \A x \in DOMAIN results :
          /\ results[x].min_distance < Inf
          /\ results[x].min_distance_km < Round3(Inf)
          /\ ~IsNone(results[x].min_distance_time)
          /\ ~NoValidSamples(Get(TleOf(results[x].sat1_name)),
                             Get(TleOf(results[x].sat2_name)), hours_ahead)

\* a finished run in which a pair with well-formed element sets had no valid
\* sample, the call raised, and another pair has a result
C7_Witness ==
    /\ pc = "done"
    /\ Len(results) >= 1
    /\ \E k \in DOMAIN calls :
          /\ Get(TleOf(calls[k].catnr1)).lines = "ok"
          /\ Get(TleOf(calls[k].catnr2)).lines = "ok"
          /\ NoValidSamples(Get(TleOf(calls[k].catnr1)),
                            Get(TleOf(calls[k].catnr2)), hours_ahead)
          /\ ~calls[k].out.ok
          /\ calls[k].out.exc = "AttributeError"

\* C10: an object without an element set is skipped without error: the run
\* does not abort, the Finder is never called on a pair that contains it,
\* such a pair is not counted in total_pairs, and no result names it.
C10_MissingElementSetSkipped ==
    /\ pc # "raised"
    /\ \A k \in DOMAIN calls :
          calls[k].catnr1 \in Evaluable /\ calls[k].catnr2 \in Evaluable
    /\ total_pairs = Cardinality(CallPairs)
    /\ total_pairs <= Cardinality(ExpectedPairs)
    /\ \A x \in DOMAIN results :
          results[x].sat1_name \in Evaluable /\ results[x].sat2_name \in Evaluable

\* a finished run where the second tracked object has no element set (it is
\* skipped as sat1 and as sat2) and the others yield a result
C10_Witness ==
    /\ pc = "done"
    /\ IsNone(TleOf(tracked_satellites[2].catnr))
    /\ Len(results) >= 1
    /\ total_pairs >= 1


\* ------------------------------------------- properties of the Finder
Abs(x) == IF x < 0 THEN -x ELSE x
FinderOutcomes == {Get(o) : o \in {f_out12, f_out21} \ {None}}

\* the classification the specification states, thresholds 1.0 km and 5.0 km
Classify(d) ==
    IF d < 10000 THEN "CRITICAL"
    ELSE IF d < 50000 THEN "HIGH RISK"
    ELSE "NORMAL"

\* C6: the risk level of a result is CRITICAL when the minimum distance d is
\* below 1.0 km, HIGH RISK when 1.0 <= d < 5.0 and NORMAL when d >= 5.0.
C6_RiskClassification ==
    \A o \in FinderOutcomes :
        o.ok =>
            LET d == o.result.min_distance
                level == o.result.risk_level
            IN  /\ d < 10000 => level = "CRITICAL"
                /\ (10000 <= d /\ d < 50000) => level = "HIGH RISK"
                /\ d >= 50000 => level = "NORMAL"
                /\ d = 10000 => level # "CRITICAL"
                /\ d = 50000 => level = "NORMAL"

\* a result whose minimum distance is exactly 1.0 km, graded HIGH RISK
C6_Witness ==
    /\ ~IsNone(f_out12)
    /\ Get(f_out12).ok
    /\ Get(f_out12).result.min_distance = 10000
    /\ Get(f_out12).result.risk_level = "HIGH RISK"
    /\ ~IsNone(f_out21)

\* The sampled steps of the grid, the separation at the first sample, and
\* "the two objects are at one fixed separation at every sampled time".
GridSteps == 0..((f_hours * 60) \div f_step)
SeparationAt(k) == Abs(Get(At(f_sat1, k * f_step)) - Get(At(f_sat2, k * f_step)))
ConstantSeparation ==
    /\ f_sat1.lines = "ok"
    /\ f_sat2.lines = "ok"
    /\ \A k \in GridSteps :
          /\ ~IsNone(At(f_sat1, k * f_step))
          /\ ~IsNone(At(f_sat2, k * f_step))
          /\ SeparationAt(k) = SeparationAt(0)

\* C8 as claimed: at constant separation d the result has
\* min_distance_km = d, risk_level = classify(d) and H*60/S + 1 samples.
C8_AsClaimed ==
    (ConstantSeparation /\ ~IsNone(f_out12)) =>
        LET o == Get(f_out12)
            d == SeparationAt(0)
        IN  /\ o.ok
            /\ o.result.min_distance_km * 10 = d
            /\ o.result.risk_level = Classify(d)
            /\ (o.result.total_steps - 1) * f_step = f_hours * 60

\* C8 amended: at constant separation d the result has min_distance_km = d
\* rounded to three decimals, risk_level = classify(d) and
\* floor(H*60/S) + 1 samples; 0.5 km over 48 h at 1 min gives 0.5, CRITICAL,
\* 2881, and an object compared with itself gives 0, CRITICAL.
C8_ConstantSeparation ==
    (ConstantSeparation /\ ~IsNone(f_out12)) =>
        LET o == Get(f_out12)
            d == SeparationAt(0)
        IN  /\ o.ok
            /\ Abs(o.result.min_distance_km * 10 - d) <= 5
            /\ o.result.risk_level = Classify(d)
            /\ o.result.total_steps = ((f_hours * 60) \div f_step) + 1
            /\ (d = 5000 /\ f_hours = 48 /\ f_step = 1) =>
                  /\ o.result.min_distance_km = 500
                  /\ o.result.risk_level = "CRITICAL"
                  /\ o.result.total_steps = 2881
            /\ f_sat2 = f_sat1 =>
                  /\ o.result.min_distance_km = 0
                  /\ o.result.risk_level = "CRITICAL"

\* two objects 0.9996 km apart at every sample of a 1 h grid at 7 min: the
\* result reports 1.000 km, CRITICAL, 9 samples
C8_Witness ==
    /\ ConstantSeparation
    /\ SeparationAt(0) = 9996
    /\ f_hours = 1
    /\ f_step = 7
    /\ ~IsNone(f_out12)
    /\ Get(f_out12).ok
    /\ Get(f_out12).result.min_distance_km = 1000
    /\ Get(f_out12).result.risk_level = "CRITICAL"
    /\ Get(f_out12).result.total_steps = 9

\* C9: the search for (A, B) and the search for (B, A) over the same grid
\* both fail or both return, with the same minimum distance, the same time
\* of the minimum and the same risk level.
C9_Symmetry ==
    (~IsNone(f_out12) /\ ~IsNone(f_out21)) =>
        LET ab == Get(f_out12)
            ba == Get(f_out21)
        IN  /\ ab.ok = ba.ok
            /\ ab.ok =>
                  /\ ab.result.min_distance_km = ba.result.min_distance_km
                  /\ ab.result.min_distance_time = ba.result.min_distance_time
                  /\ ab.result.risk_level = ba.result.risk_level
                  /\ ab.result.sat1_name = ba.result.sat2_name
                  /\ ab.result.sat2_name = ba.result.sat1_name

\* both orders evaluated for two different trajectories whose minimum is not
\* at the first sample
C9_Witness ==
    /\ ~IsNone(f_out12)
    /\ ~IsNone(f_out21)
    /\ Get(f_out12).ok
    /\ f_sat1.orbit # f_sat2.orbit
    /\ f_sat1.OBJECT_NAME # f_sat2.OBJECT_NAME
    /\ Get(f_out12).result.min_distance_time # Some(0)
    /\ Get(f_out12).result.min_distance > 0

\* --------------------------------------------------------------------
\* The persisted report
\* --------------------------------------------------------------------
\* a report as a reader of the JSON document gets it
JsonOf(output_data) ==
    [timestamp |-> output_data.timestamp,
     total_risks |-> Len(output_data.results),
     results |-> [m \in 1..Len(output_data.results) |->
                     JsonResult(output_data.results[m])]]

\* C11: once save_results(A) and then save_results(B) have completed, a
\* load returns B (its timestamp, its total, its result list, as the JSON
\* document holds them) and nothing of A: the report is replaced, not merged.
C11_ReplaceSemantics ==
    (/\ ~IsNone(loaded)
     /\ ~Get(loaded).writing
     /\ ~Get(loaded).failed
     /\ ~IsNone(Get(loaded).prev)) =>
        LET B == Get(Get(loaded).prev)
            ret == Get(loaded).out.ret
        IN  /\ ~IsNone(ret)
            /\ Get(ret).timestamp = B.timestamp
            /\ Get(ret).total_risks = Len(B.results)
            /\ Len(Get(ret).results) = Len(B.results)
            /\ Get(ret) = JsonOf(B)
C11_Witness ==
    /\ Len(saved) = 2
    /\ Len(saved[1].results) = 2
    /\ Len(saved[2].results) = 1
    /\ ~IsNone(loaded)
    /\ ~Get(loaded).writing
    /\ ~Get(loaded).failed
    /\ Get(loaded).prev = Some(saved[2])
    /\ Get(loaded).out.ret = Some(JsonOf(saved[2]))

\* C12: a reader concurrent with a write gets either the complete previous
\* report or the complete new one, never an empty or partial one.
C12_AsClaimed ==
    (~IsNone(loaded) /\ ~Get(loaded).failed) =>
        LET L == Get(loaded)
            complete == {JsonOf(Get(x)) : x \in {L.prev, L.new} \ {None}}
        IN  complete # {} =>
                /\ ~IsNone(L.out.ret)
                /\ Get(L.out.ret) \in complete

\* C13: after every batch run that reached the end of pair monitoring, a run
\* with no risk to report included, the persisted report is that run's.
C13_AsClaimed ==
    (w_pc = "idle" /\ ~IsNone(last_run)) =>
        load_conjunction_results(file).ret = Some(JsonOf(Get(last_run)))

ClassifyReported(km) ==
    IF km < 1000 THEN "CRITICAL"
    ELSE IF km < 5000 THEN "HIGH RISK"
    ELSE "NORMAL"

\* C15: the risk level of a result is the classification (thresholds 1.0
\* and 5.0 km) of the min_distance_km it reports, and min_distance_km >= 0.
C15_AsClaimed ==
    \A out \in FinderOutcomes :
        out.ok =>
            /\ out.result.min_distance_km >= 0
            /\ out.result.risk_level = ClassifyReported(out.result.min_distance_km)

\* C16: a smaller minimum distance never has a lower rank: for d1 < d2 the
\* rank of d1's risk level is at least the rank of d2's, with the ranks the
\* scheduler uses.
ProbeDistances == {0, 4, 9999, 10000, 10001, 49999, 50000, 50001, 60000}
C16_Monotone ==
    /\ \A m, n \in DOMAIN calls :
          (/\ calls[m].out.ok
           /\ calls[n].out.ok
           /\ calls[m].out.result.min_distance < calls[n].out.result.min_distance) =>
              RiskRank(calls[m].out.result.risk_level)
                  >= RiskRank(calls[n].out.result.risk_level)
    /\ \A d1, d2 \in ProbeDistances :
          d1 < d2 => RiskRank(RiskLevel(d1)) >= RiskRank(RiskLevel(d2))
C16_Witness ==
    \E m, n \in DOMAIN calls :
        /\ calls[m].out.ok
        /\ calls[n].out.ok
        /\ calls[m].out.result.min_distance < calls[n].out.result.min_distance
        /\ RiskRank(calls[m].out.result.risk_level)
               > RiskRank(calls[n].out.result.risk_level)

\* grid steps at which both positions can be computed
BothParse == f_sat1.lines = "ok" /\ f_sat2.lines = "ok"
ValidSteps ==
    {k \in GridSteps : /\ ~IsNone(At(f_sat1, k * f_step))
                       /\ ~IsNone(At(f_sat2, k * f_step))}

SamplerValidSteps ==
    {k \in GridSteps : /\ ~IsNone(At(f_sat1, k * f_step))
                       /\ f_sat1.subpoint = "ok"}

\* C18: a sample that fails is skipped and nothing else: every other grid
\* sample is still evaluated and the result is the minimum over the valid
\* ones; the single-object sampler likewise returns exactly the samples that
\* could be computed, in time order.
C18_SampleFailureSkipped ==
    /\ (BothParse /\ ValidSteps # {}) =>
          \A out \in FinderOutcomes :
              /\ out.ok
              /\ out.result.evaluated = Cardinality(ValidSteps)
              /\ \A k \in ValidSteps : out.result.min_distance <= SeparationAt(k)
              /\ \E k \in ValidSteps : out.result.min_distance = SeparationAt(k)
    /\ ~IsNone(f_positions) =>
          LET positions == Get(f_positions)
          IN  /\ Len(positions) = Cardinality(SamplerValidSteps)
              /\ {positions[m].time : m \in DOMAIN positions}
                     = {k * f_step * 60 : k \in SamplerValidSteps}
              /\ \A m \in DOMAIN positions :
                    /\ m > 1 => positions[m - 1].time < positions[m].time
                    /\ Some(positions[m].position)
                           = At(f_sat1, positions[m].time \div 60)
C18_Witness ==
    /\ BothParse
    /\ f_hours <= 2
    /\ ~IsNone(f_out12)
    /\ Get(f_out12).ok
    /\ Get(f_out12).result.evaluated >= 2
    /\ ~IsNone(f_positions)
    /\ Len(Get(f_positions)) >= 2
    /\ \E k0, k1 \in GridSteps :
          /\ k0 < k1
          /\ IsNone(At(f_sat1, k0 * f_step))
          /\ k1 \in ValidSteps
          /\ Get(f_out12).result.min_distance_time = Some(k1 * f_step)
          /\ Get(f_positions)[1].time = k1 * f_step * 60
          /\ \E k2, k3 \in GridSteps :
                /\ k1 < k2
                /\ k2 < k3
                /\ IsNone(At(f_sat1, k2 * f_step))
                /\ k3 \in ValidSteps
                /\ Get(f_positions)[2].time = k3 * f_step * 60

\* the outcomes of the two calls, and the samples, of a window whose every
\* sample can be computed
AllValid == BothParse /\ ValidSteps = GridSteps
LastGridTime(out) == (out.result.total_steps - 1) * f_step

\* C19 as stated: the sample times start at the start, go up by exactly one
\* step and end at start + duration, whatever the duration and the step.
C19_AsClaimed ==
    /\ \A out \in FinderOutcomes :
          out.ok => LastGridTime(out) = f_hours * 60
    /\ (AllValid /\ SamplerValidSteps = GridSteps /\ ~IsNone(f_positions)) =>
          LET positions == Get(f_positions)
          IN  /\ positions[1].time = 0
              /\ \A m \in 2..Len(positions) :
                    positions[m].time = positions[m - 1].time + f_step * 60
              /\ positions[Len(positions)].time = f_hours * 60 * 60

\* C19: the sample times start at the start and go up by exactly one step;
\* the last one is start + floor(duration / step) * step, the last grid time
\* that is not after start + duration, and it is start + duration exactly
\* when the step divides the duration.
C19_GridCoverage ==
    /\ \A out \in FinderOutcomes :
          out.ok =>
              /\ out.result.total_steps = (f_hours * 60) \div f_step + 1
              /\ LastGridTime(out) <= f_hours * 60
              /\ f_hours * 60 < LastGridTime(out) + f_step
              /\ (LastGridTime(out) = f_hours * 60) <=> ((f_hours * 60) % f_step = 0)
              /\ \E k \in 0..(out.result.total_steps - 1) :
                    out.result.min_distance_time = Some(k * f_step)
    /\ (AllValid /\ SamplerValidSteps = GridSteps /\ ~IsNone(f_positions)) =>
          LET positions == Get(f_positions)
              last == positions[Len(positions)].time
          IN  /\ positions[1].time = 0
              /\ \A m \in 2..Len(positions) :
                    positions[m].time = positions[m - 1].time + f_step * 60
              /\ last <= f_hours * 60 * 60
              /\ f_hours * 60 * 60 < last + f_step * 60
              /\ (last = f_hours * 60 * 60) <=> ((f_hours * 60) % f_step = 0)
C19_Witness ==
    /\ AllValid
    /\ SamplerValidSteps = GridSteps
    /\ ~IsNone(f_out12)
    /\ Get(f_out12).ok
    /\ ~IsNone(f_positions)
    /\ (f_hours * 60) % f_step # 0
    /\ Len(Get(f_positions)) > 2
    /\ Get(f_positions)[Len(Get(f_positions))].time < f_hours * 60 * 60
    /\ LastGridTime(Get(f_out12)) < f_hours * 60

\* the same element set with a sub-point that can be computed
SubpointOk(tle) == [tle EXCEPT !.subpoint = "ok"]
SubpointFails == f_sat1.subpoint = "raises" \/ f_sat2.subpoint = "raises"
EnrichmentFails == f_sat1.subpoint # "ok" \/ f_sat2.subpoint # "ok"
Enriched(out) ==
    /\ ~IsNone(out.result.sat1_position_at_closest)
    /\ ~IsNone(out.result.sat2_position_at_closest)
NotEnriched(out) ==
    /\ IsNone(out.result.sat1_position_at_closest)
    /\ IsNone(out.result.sat2_position_at_closest)

\* C20: when the sub-point lookup fails, the result is still returned, with
\* the min_distance_km, min_distance_time and risk_level it has when the
\* lookup succeeds, and without the enrichment; the failure does not
\* propagate.
C20_EnrichmentBestEffort ==
    (BothParse /\ ValidSteps # {}) =>
        /\ ~IsNone(f_out12) =>
              LET out == Get(f_out12)
                  plain == calculate_conjunction_risk(SubpointOk(f_sat1),
                               SubpointOk(f_sat2), f_hours, f_step)
              IN  /\ out.ok
                  /\ SubpointFails => NotEnriched(out)
                  /\ EnrichmentFails =>
                        /\ ~Enriched(out)
                        /\ plain.ok
                        /\ Enriched(plain)
                        /\ out.result.min_distance_km = plain.result.min_distance_km
                        /\ out.result.min_distance_time = plain.result.min_distance_time
                        /\ out.result.risk_level = plain.result.risk_level
                  /\ ~EnrichmentFails => Enriched(out)
        /\ ~IsNone(f_out21) =>
              /\ Get(f_out21).ok
              /\ SubpointFails => NotEnriched(Get(f_out21))
              /\ EnrichmentFails => ~Enriched(Get(f_out21))
              /\ ~EnrichmentFails => Enriched(Get(f_out21))
C20_Witness ==
    /\ BothParse
    /\ f_sat1.subpoint = "ok"
    /\ f_sat2.subpoint = "raises"
    /\ ~IsNone(f_out12)
    /\ Get(f_out12).ok
    /\ NotEnriched(Get(f_out12))
    /\ Get(f_out12).result.risk_level = "HIGH RISK"
    /\ Get(f_out12).result.min_distance_km = 1000

\* an element set that is malformed: lines missing or unparseable, or one
\* the propagator rejects at every time
StructurallyInvalid(tle) ==
    \/ tle.lines # "ok"
    \/ \A k \in DOMAIN tle.orbit : IsNone(tle.orbit[k])

\* C21: with a malformed element set (lines missing, unparseable, or
\* rejected by the propagator) the search fails as a whole with the
\* element-set-invalid error (ValueError), not through per-sample skips, and
\* produces no result.
C21_AsClaimed ==
    (StructurallyInvalid(f_sat1) \/ StructurallyInvalid(f_sat2)) =>
        \A out \in FinderOutcomes :
            /\ ~out.ok
            /\ out.exc = "ValueError"

\* C29 as stated: every result has both positions at closest approach or
\* neither, whatever step of the enrichment fails.
C29_AsClaimed ==
    \A out \in FinderOutcomes :
        out.ok => (Enriched(out) \/ NotEnriched(out))

\* C29: a result never has sat2_position_at_closest without
\* sat1_position_at_closest.  It has both when the enrichment succeeds,
\* neither when a sub-point cannot be computed or the first one cannot be
\* read, and sat1_position_at_closest alone when only the second sub-point
\* cannot be read.
C29_EnrichmentOrder ==
    (BothParse /\ ~IsNone(f_out12) /\ Get(f_out12).ok) =>
        LET out == Get(f_out12)
            only1 == /\ ~IsNone(out.result.sat1_position_at_closest)
                     /\ IsNone(out.result.sat2_position_at_closest)
        IN  /\ ~IsNone(out.result.sat2_position_at_closest)
                  => ~IsNone(out.result.sat1_position_at_closest)
            /\ Enriched(out) <=> ~EnrichmentFails
            /\ only1 <=> (/\ f_sat1.subpoint = "ok"
                          /\ f_sat2.subpoint = "unreadable")
            /\ NotEnriched(out) <=> (SubpointFails \/ f_sat1.subpoint = "unreadable")
C29_Witness ==
    /\ BothParse
    /\ f_sat2.subpoint = "unreadable"
    /\ ~IsNone(f_out12)
    /\ Get(f_out12).ok
    /\ ~IsNone(Get(f_out12).result.sat1_position_at_closest)
    /\ IsNone(Get(f_out12).result.sat2_position_at_closest)

\* C30: total_steps is the size of the time grid, hours_ahead * 60 //
\* step_minutes + 1, whatever number of samples failed; it is the number of
\* samples evaluated only when none was skipped.
C30_TotalSteps ==
    BothParse =>
        \A out \in FinderOutcomes :
            out.ok =>
                /\ out.result.total_steps = (f_hours * 60) \div f_step + 1
                /\ out.result.total_steps = Cardinality(GridSteps)
                /\ out.result.evaluated = Cardinality(ValidSteps)
                /\ (out.result.total_steps = out.result.evaluated)
                      <=> (ValidSteps = GridSteps)
C30_Witness ==
    /\ BothParse
    /\ f_hours <= 2
    /\ ~IsNone(f_out12)
    /\ Get(f_out12).ok
    /\ Get(f_out12).result.evaluated > 0
    /\ Get(f_out12).result.evaluated < Get(f_out12).result.total_steps
    /\ Get(f_out12).result.total_steps = (f_hours * 60) \div f_step + 1

\* --------------------------------------------------------------------
\* What the scheduler reports
\* --------------------------------------------------------------------
\* the counts monitor_all_pairs prints
ReportedCounts ==
    {printed[m].n : m \in {k \in DOMAIN printed : printed[k].kind = "checked"}}
NumSkipped == Cardinality(Catnrs \ Evaluable) + NumFailed

\* C22: at the end of a batch the scheduler reports the number of pairs
\* attempted and the number of pairs that yielded a result, and the skips
\* (objects without element set, failed pairs) are counted in its report.
C22_AsClaimed ==
    pc = "done" =>
        /\ Len(calls) \in ReportedCounts
        /\ NumReturned \in ReportedCounts
        /\ NumSkipped > 0 => NumSkipped \in ReportedCounts

\* C27: with a min_risk_level that is not a key of risk_levels the threshold
\* is rank 0: the batch returns every pair that was evaluated successfully,
\* NORMAL ones included; a risk level that is not a key ranks 0 as well.
C27_UnknownKeyIsRankZero ==
    /\ RiskRank("UNKNOWN") = 0
    /\ (pc = "done" /\ min_risk_level \notin RiskKeys) =>
          /\ RiskRank(min_risk_level) = 0
          /\ Len(results) = NumReturned
          /\ \A k \in DOMAIN calls :
                calls[k].out.ok =>
                    \E m \in DOMAIN results : results[m] = calls[k].out.result
C27_Witness ==
    /\ pc = "done"
    /\ min_risk_level = "HIGH_RISK"
    /\ NumFailed > 0
    /\ \E m \in DOMAIN results : results[m].risk_level = "NORMAL"
    /\ \E m \in DOMAIN results : results[m].risk_level = "HIGH RISK"

\* --------------------------------------------------------------------
\* main(): the pair loop, then the report
\* --------------------------------------------------------------------
\* the report in place when main() started, as the file holds it
FileAtStart ==
    IF saved = <<>> THEN None ELSE Some(JsonDump(PreviousReport))
BeforeSave == {"outer", "inner", "interrupted", "done", "reported"}

\* C23: results are persisted only after the whole pair loop has returned:
\* while pairs are evaluated, and in a run interrupted during the loop,
\* nothing is written and the report of the earlier run stays as it was;
\* the file is opened only once every evaluable pair has been attempted.
C23_PersistAfterAllPairs ==
    /\ pc \in BeforeSave =>
          /\ w_pc = "idle"
          /\ IsNone(w_data)
          /\ file = FileAtStart
          /\ saved \in {<<>>, <<PreviousReport>>}
    /\ w_pc # "idle" =>
          /\ pc \in {"saving", "raised"}
          /\ CallPairs = ExpectedPairs
          /\ Len(results) = NumReturned

\* a run interrupted after a pair had yielded a result and before the last
\* pair: the earlier report is still the one a load returns
C23_Witness ==
    /\ pc = "interrupted"
    /\ Len(results) >= 1
    /\ CallPairs # ExpectedPairs
    /\ saved = <<PreviousReport>>
    /\ load_conjunction_results(file).ret = Some(JsonOf(PreviousReport))

\* C24: when save_results fails, the exception leaves main(): the run does
\* not end as a saved one (the "saved" line is never printed), and the
\* results the pair loop returned are unchanged and were already printed
\* in the batch report.
C24_SaveFailureSurfaces ==
    w_pc = "failed" =>
        /\ pc = "raised"
        /\ \A m \in DOMAIN printed : printed[m].kind # "saved"
        /\ Len(results) = NumReturned
        /\ \A k \in DOMAIN calls :
              calls[k].out.ok =>
                  \E m \in DOMAIN results : results[m] = calls[k].out.result
        /\ \E m \in DOMAIN printed :
              /\ printed[m].kind = "report"
              /\ printed[m].results = results

\* the save failed after part of the report had been written, in a run with
\* a result and failed pairs
C24_Witness ==
    /\ w_pc = "failed"
    /\ pc = "raised"
    /\ Len(results) >= 1
    /\ NumFailed >= 1
    /\ ~IsNone(file)
    /\ Len(Get(file)) >= 3

\* C28: when save_results fails after it has opened the file, the report
\* persisted before is still intact and loadable, and the location is not
\* left empty or truncated.
C28_AsClaimed ==
    w_pc = "failed" =>
        /\ ~IsNone(file)
        /\ WellFormed(Get(file))
        /\ saved # <<>> =>
              load_conjunction_results(file).ret =
                  Some(JsonOf(saved[Len(saved)]))

\* --------------------------------------------------------------------
\* Fetching the element sets
\* --------------------------------------------------------------------
\* one request per tracked object so far, in the order of the list
OneRequestEach ==
    /\ Len(ft_requests) <= Len(ft_responses)
    /\ \A m \in DOMAIN ft_requests : ft_requests[m] = tracked_satellites[m].catnr
\* the returned map holds exactly the objects whose response was usable
OnlyFailedOmitted ==
    /\ Len(ft_requests) = Len(ft_responses)
    /\ \A k \in DOMAIN ft_responses :
          /\ ft_responses[k] = "ok" => ~IsNone(ft_data[k])
          /\ ft_responses[k] # "ok" => IsNone(ft_data[k])

\* C25: fetch_all_satellite_tles makes at most one request per tracked
\* object and never repeats one; a failed, empty or malformed response
\* omits only that object from the returned map and every later object is
\* still requested; and the function eventually returns.
C25_SkipAndContinueTerminates ==
    /\ [](OneRequestEach /\ (ft_pc = "returned" => OnlyFailedOmitted))
    /\ <>(ft_pc = "returned")

\* returned after a timeout and a malformed text, the last object fetched
C25_Witness ==
    /\ ft_pc = "returned"
    /\ Len(ft_responses) = NumSats
    /\ ft_responses[1] = "timeout"
    /\ ft_responses[2] = "short"
    /\ ft_responses[NumSats] = "ok"
    /\ ft_requests[NumSats] = tracked_satellites[NumSats].catnr
    /\ ~IsNone(ft_data[NumSats])

\* --------------------------------------------------------------------
\* Risks of one tracked object
\* --------------------------------------------------------------------
\* the distances of the report's results for pairs that contain catnr c
DistancesOfPairsWith(c) ==
    LET Contains(result) ==
            \E ab \in RiskPairs : /\ c \in {ab[1], ab[2]}
                                  /\ result = ReportResult(ab)
        own == SelectSeq(Get(rk_report).results, Contains)
    IN  [m \in 1..Len(own) |-> own[m].min_distance_km]

\* C26: get_satellite_risks returns exactly the results of the pairs in
\* which the tracked object is one of the two objects, in the report's
\* order, and no result of another pair, even when another object's name
\* contains the queried name.
C26_AsClaimed ==
    (~IsNone(rk_out) /\ ~IsNone(rk_report)) =>
        [m \in 1..Len(Get(rk_out)) |-> Get(rk_out)[m].distance_km]
            = DistancesOfPairsWith(tracked_satellites[rk_query].catnr)

====
